---- MODULE Spec2Model ----
(***************************************************************************)
(* Model of deep_sort's Tracker (src/deep_sort/tracker.py): the per-frame  *)
(* association cascade, the track lifecycle, the duplicate-initiation      *)
(* guard and the refit of the two appearance galleries.                    *)
(*                                                                         *)
(* Python list indices 0..n-1 are the sequence indices 1..n here.          *)
(* Boxes are unit-stride intervals of width 2 on a line, so that two boxes *)
(* at distance 0, 1, >=2 have IoU 1, 1/3, 0.  IoU and feature distances    *)
(* are kept as integers in units of 1/30.                                  *)
(***************************************************************************)
EXTENDS Integers, Sequences, FiniteSets

(* ---------------------------- bounds ----------------------------------- *)
MaxDets == 2
MaxTracks == 2
MaxId == 3
MaxHits == 3

(* ------------------------ program parameters --------------------------- *)
\* Tracker(metric, sub_metric, max_iou_distance=0.7, max_age, n_init)
max_age == 2
n_init == 2
max_iou_distance == 21
\* has_same_subfeat(det, tracks, feat_thresh=0.9, iou_thresh=0.5)
feat_thresh == 27
iou_thresh == 15
\* metric.matching_threshold, sub_metric.matching_threshold
matching_threshold == 6
sub_matching_threshold == 6
\* kalman_filter.chi2inv95[4] = 9.4877, in units of 1/10000
gating_threshold == 94877
\* linear_assignment.INFTY_COST
INFTY_COST == 100000
\* `sub_feature is None`
None == 0

\* tracks, next_id, samples, sub_samples: the Tracker and its two metrics;
\* npredict: the predict() calls since the last update(); retired, stream,
\* last: history (identities of removed tracks, the detection list fed
\* unchanged in every frame so far with the number of frames, counted up to
\* n_init + 1, and the record of the last update() call)
VARIABLES tracks, next_id, samples, sub_samples, npredict, retired, stream, last

vars == <<tracks, next_id, samples, sub_samples, npredict, retired, stream, last>>

(* ----------------------------- helpers --------------------------------- *)
Range(s) == {s[i] : i \in DOMAIN s}

Abs(x) == IF x < 0 THEN 0 - x ELSE x

RECURSIVE SortedList(_)
SortedList(S) ==
    IF S = {} THEN <<>>
    ELSE LET m == CHOOSE x \in S : \A y \in S : x <= y
         IN <<m>> \o SortedList(S \ {m})

RECURSIVE SortPairs(_)
SortPairs(M) ==
    IF M = {} THEN <<>>
    ELSE LET p == CHOOSE x \in M : \A y \in M : x[1] <= y[1]
         IN <<p>> \o SortPairs(M \ {p})

\* the total cost of the assignment that extends the feasible pairs M,
\* relative to the clipped cost max_distance + epsilon of every other pair
\* (in units of epsilon = 1/8)
RECURSIVE SumCost(_, _, _)
SumCost(M, cost_matrix, max_distance) ==
    IF M = {} THEN 0
    ELSE LET p == CHOOSE x \in M : TRUE
         IN (cost_matrix[p] - max_distance) * 8 - 1
              + SumCost(M \ {p}, cost_matrix, max_distance)

(* ------------------------------ inputs --------------------------------- *)
\* deep_sort.detection.Detection: box, primary feature, optional secondary
\* feature with its own box (the secondary region moves with the box).
\* The frames are built from five detections: an object at position 0 with
\* primary feature 1, without and with a secondary feature; an object at
\* the same place with another primary and a far secondary feature; and
\* the same two appearances at position 2, which does not overlap 0.
Detection ==
    {[tlbr |-> a[1], feature |-> a[2], sub_feature |-> a[3], sub_tlbr |-> a[1]] :
        a \in {<<0, 1, None>>, <<0, 1, 1>>, <<0, 2, 3>>, <<2, 1, 1>>, <<2, 2, 3>>}}

DetectionLists == UNION {[1..n -> Detection] : n \in 0..MaxDets}

(* --------------------------- collaborators ----------------------------- *)
\* bbox_overlaps / iou_matching.iou on width-2 boxes, in units of 1/30
IoU(a, b) ==
    LET d == Abs(a - b)
    IN IF d = 0 THEN 30 ELSE IF d = 1 THEN 10 ELSE 0

\* numpy.linalg.norm of the difference of two feature vectors, units of 1/30
norm(f, g) == 20 * Abs(f - g)

\* iou_matching.iou_cost: 1 - IoU(predicted box, detection box)
iou_cost(trks, dets) ==
    [p \in (DOMAIN trks) \X (DOMAIN dets) |->
        30 - IoU(trks[p[1]].mean, dets[p[2]].tlbr)]

\* KalmanFilter.gating_distance: squared Mahalanobis distance between the
\* predicted position and the measurement; the predicted variance grows by
\* one unit with every predict since the last measurement update.
gating_distance(trk, det) ==
    ((trk.mean - det.tlbr) * (trk.mean - det.tlbr) * 70000)
        \div (trk.time_since_update + 1)

\* NearestNeighborDistanceMetric.has_samples
has_samples(smp, id) == \E q \in smp : q[1] = id

\* NearestNeighborDistanceMetric.distance: nearest-neighbour distance of a
\* query vector to the gallery of one identity
distance(smp, f, id) ==
    LET ds == {norm(f, q[2]) : q \in {r \in smp : r[1] = id}}
    IN IF ds = {} THEN INFTY_COST
       ELSE CHOOSE x \in ds : \A y \in ds : x <= y

\* linear_assignment.min_cost_matching on the cost matrix of the metric:
\* every outcome the assignment solver may return.  Costs above
\* max_distance are clipped to just above it, a minimum-cost assignment is
\* computed and its infeasible pairs are dropped.
min_cost_matching(cost_matrix, max_distance, track_indices, detection_indices) ==
    IF Len(track_indices) = 0 \/ Len(detection_indices) = 0
    THEN {[matches |-> <<>>, unmatched_tracks |-> track_indices,
           unmatched_detections |-> detection_indices]}
    ELSE
      LET F == {p \in Range(track_indices) \X Range(detection_indices) :
                    cost_matrix[p] <= max_distance}
          Ms == {M \in SUBSET F :
                    \A p, q \in M : p # q => (p[1] # q[1] /\ p[2] # q[2])}
          lowest == CHOOSE x \in {SumCost(M, cost_matrix, max_distance) : M \in Ms} :
                       \A N \in Ms : x <= SumCost(N, cost_matrix, max_distance)
          best == {M \in Ms : SumCost(M, cost_matrix, max_distance) = lowest}
      IN {[matches |-> SortPairs(M),
           unmatched_tracks |->
               SelectSeq(track_indices, LAMBDA t : \A p \in M : p[1] # t),
           unmatched_detections |->
               SelectSeq(detection_indices, LAMBDA d : \A p \in M : p[2] # d)]
          : M \in best}

\* mutant: the buckets are worked through from the stalest to the freshest
RECURSIVE cascade_from_stalest(_, _, _, _, _, _, _)
cascade_from_stalest(cost_matrix, max_distance, cascade_depth, trks, track_indices, level, acc) ==
    IF level >= cascade_depth \/ Len(acc.unmatched_detections) = 0
    THEN {acc}
    ELSE
      LET track_indices_l ==
              SelectSeq(track_indices,
                        LAMBDA k : trks[k].time_since_update
                                     = cascade_depth - level)
      IN IF Len(track_indices_l) = 0
         THEN cascade_from_stalest(cost_matrix, max_distance, cascade_depth,
                                   trks, track_indices, level + 1, acc)
         ELSE UNION {
                cascade_from_stalest(cost_matrix, max_distance, cascade_depth,
                                     trks, track_indices, level + 1,
                                     [matches |-> acc.matches \o r.matches,
                                      unmatched_detections |-> r.unmatched_detections])
                : r \in min_cost_matching(cost_matrix, max_distance,
                                          track_indices_l,
                                          acc.unmatched_detections)}

\* linear_assignment.matching_cascade, levels level .. cascade_depth - 1;
\* acc holds the matches and the unmatched detections so far
RECURSIVE cascade_from(_, _, _, _, _, _, _)
cascade_from(cost_matrix, max_distance, cascade_depth, trks, track_indices, level, acc) ==
    IF level >= cascade_depth \/ Len(acc.unmatched_detections) = 0
    THEN {acc}
    ELSE
      LET track_indices_l ==
              SelectSeq(track_indices,
                        LAMBDA k : trks[k].time_since_update = 1 + level)
      IN IF Len(track_indices_l) = 0
         THEN cascade_from(cost_matrix, max_distance, cascade_depth, trks,
                           track_indices, level + 1, acc)
         ELSE UNION {
                cascade_from(cost_matrix, max_distance, cascade_depth, trks,
                             track_indices, level + 1,
                             [matches |-> acc.matches \o r.matches,
                              unmatched_detections |-> r.unmatched_detections])
                : r \in min_cost_matching(cost_matrix, max_distance,
                                          track_indices_l,
                                          acc.unmatched_detections)}

matching_cascade(cost_matrix, max_distance, cascade_depth, trks, dets, track_indices) ==
    {[matches |-> a.matches,
      unmatched_tracks |->
          SortedList(Range(track_indices) \ {a.matches[i][1] : i \in DOMAIN a.matches}),
      unmatched_detections |-> a.unmatched_detections]
     : a \in cascade_from(cost_matrix, max_distance, cascade_depth, trks,
                          track_indices, 0,
                          [matches |-> <<>>,
                           unmatched_detections |->
                               [i \in 1..Len(dets) |-> i]])}

(* ------------------------------- Track --------------------------------- *)
\* Track(detection, mean, covariance, track_id, n_init, max_age, feature,
\* sub_feature): a Tentative track with zero hits and time_since_update.
\* The fields missed and trial are history, kept by Update: the consecutive
\* update() calls that left the track unmatched, and the update() calls the
\* track went through while Tentative.
Track(det, track_id) ==
    [track_id |-> track_id, state |-> "Tentative", hits |-> 0,
     time_since_update |-> 0, mean |-> det.tlbr,
     features |-> {det.feature},
     sub_features |-> {det.sub_feature} \ {None},
     detection |-> det, missed |-> 0, trial |-> 0]

is_confirmed(trk) == trk.state = "Confirmed"

is_deleted(trk) == trk.state = "Deleted"

\* Track.predict: one more frame since the last measurement update
track_predict(trk) ==
    [trk EXCEPT !.time_since_update = @ + 1]

\* Track.update: counters and state machine advance; the features of the
\* detection are kept only if the resulting state is Confirmed
track_update(trk, det) ==
    LET st == IF trk.state = "Tentative" /\ trk.hits + 1 >= n_init
              THEN "Confirmed" ELSE trk.state
    IN [trk EXCEPT
          !.mean = det.tlbr,
          !.hits = @ + 1,
          !.time_since_update = 0,
          !.state = st,
          !.features = IF st = "Confirmed" THEN @ \cup {det.feature} ELSE @,
          !.sub_features = IF st = "Confirmed"
                           THEN @ \cup ({det.sub_feature} \ {None}) ELSE @,
          !.detection = det]

\* Track.mark_missed
mark_missed(trk) ==
    [trk EXCEPT
       !.state = IF trk.state = "Tentative" THEN "Deleted"
                 ELSE IF trk.time_since_update > max_age THEN "Deleted"
                 ELSE @]

(* -------------------------- has_same_subfeat --------------------------- *)
\* mutant: the feature comparison is the wrong way round
has_same_subfeat_far(det, trks) ==
    IF det.sub_feature = None THEN FALSE
    ELSE \E i \in DOMAIN trks :
            /\ trks[i].detection.sub_feature # None
            /\ IoU(det.sub_tlbr, trks[i].detection.sub_tlbr) > iou_thresh
            /\ norm(det.sub_feature, trks[i].detection.sub_feature) > feat_thresh

\* mutant: a detection without secondary feature is compared all the same
has_same_subfeat_unchecked(det, trks) ==
    \E i \in DOMAIN trks :
       /\ trks[i].detection.sub_feature # None
       /\ IoU(det.sub_tlbr, trks[i].detection.sub_tlbr) > iou_thresh
       /\ norm(det.sub_feature, trks[i].detection.sub_feature) < feat_thresh

has_same_subfeat(det, trks) ==
    IF det.sub_feature = None THEN FALSE
    ELSE \E i \in DOMAIN trks :
            /\ trks[i].detection.sub_feature # None
            /\ IoU(det.sub_tlbr, trks[i].detection.sub_tlbr) > iou_thresh
            /\ norm(det.sub_feature, trks[i].detection.sub_feature) < feat_thresh

(* ---------------------------- Tracker._match --------------------------- *)
\* mutant: the appearance cost without the motion gate
gated_metric_ungated(trks, dets, smp) ==
    [p \in (DOMAIN trks) \X (DOMAIN dets) |->
        distance(smp, dets[p[2]].feature, trks[p[1]].track_id)]

\* the cost matrices are functions on the pairs <<track index, detection index>>
gated_metric(trks, dets, smp) ==
    [p \in (DOMAIN trks) \X (DOMAIN dets) |->
        IF gating_distance(trks[p[1]], dets[p[2]]) > gating_threshold
        THEN INFTY_COST
        ELSE distance(smp, dets[p[2]].feature, trks[p[1]].track_id)]

sub_metric(trks, dets, sub_smp) ==
    [p \in (DOMAIN trks) \X (DOMAIN dets) |->
        distance(sub_smp, dets[p[2]].sub_feature, trks[p[1]].track_id)]

\* mutant: every track that Stage A left unmatched goes to the IOU stage
iou_track_candidates_any_age(trks, unconfirmed_tracks, unmatched_tracks_a) ==
    unconfirmed_tracks \o unmatched_tracks_a

\* the track candidates of the IOU stage and the tracks that skip it
iou_track_candidates(trks, unconfirmed_tracks, unmatched_tracks_a) ==
    unconfirmed_tracks \o
        SelectSeq(unmatched_tracks_a, LAMBDA k : trks[k].time_since_update = 1)

\* mutant: the tracks that went to the IOU stage are not taken out
skip_iou_tracks_unfiltered(trks, unmatched_tracks_a) == unmatched_tracks_a

skip_iou_tracks(trks, unmatched_tracks_a) ==
    SelectSeq(unmatched_tracks_a, LAMBDA k : trks[k].time_since_update # 1)

\* the candidates of the secondary-feature stage and what skips it
subfeat_track_candidates(trks, sub_smp, unmatched_tracks_ab) ==
    SelectSeq(unmatched_tracks_ab, LAMBDA k : has_samples(sub_smp, trks[k].track_id))

skip_subfeat_tracks(trks, sub_smp, unmatched_tracks_ab) ==
    SelectSeq(unmatched_tracks_ab, LAMBDA k : ~has_samples(sub_smp, trks[k].track_id))

\* mutant: the detections without secondary feature are candidates too
subfeat_det_candidates_unfiltered(dets, unmatched_detections) == unmatched_detections

subfeat_det_candidates(dets, unmatched_detections) ==
    SelectSeq(unmatched_detections, LAMBDA k : dets[k].sub_feature # None)

skip_subfeat_dets(dets, unmatched_detections) ==
    SelectSeq(unmatched_detections, LAMBDA k : dets[k].sub_feature = None)

\* every result _match may return, with the intermediate results of its stages
_match(trks, dets, smp, sub_smp) ==
    LET confirmed_tracks ==
            SelectSeq([i \in 1..Len(trks) |-> i], LAMBDA i : is_confirmed(trks[i]))
        unconfirmed_tracks ==
            SelectSeq([i \in 1..Len(trks) |-> i], LAMBDA i : ~is_confirmed(trks[i]))
        StageC(a, b) ==
            LET ab == SortedList(Range(skip_iou_tracks(trks, a.unmatched_tracks)
                                       \o b.unmatched_tracks))
                track_candidates == subfeat_track_candidates(trks, sub_smp, ab)
                unmatched_tracks_ab == skip_subfeat_tracks(trks, sub_smp, ab)
                det_candidates == subfeat_det_candidates(dets, b.unmatched_detections)
                unmatched_detections_ab == skip_subfeat_dets(dets, b.unmatched_detections)
            IN {[matches |-> a.matches \o b.matches \o c.matches,
                 unmatched_tracks |-> unmatched_tracks_ab \o c.unmatched_tracks,
                 unmatched_detections |->
                     unmatched_detections_ab \o c.unmatched_detections,
                 matches_a |-> a.matches,
                 matches_b |-> b.matches,
                 matches_c |-> c.matches,
                 iou_track_candidates |->
                     iou_track_candidates(trks, unconfirmed_tracks, a.unmatched_tracks),
                 iou_det_candidates |-> a.unmatched_detections,
                 subfeat_track_candidates |-> track_candidates,
                 subfeat_det_candidates |-> det_candidates,
                 unmatched_tracks_a |-> a.unmatched_tracks,
                 unmatched_tracks_b |-> b.unmatched_tracks,
                 unmatched_detections_b |-> b.unmatched_detections,
                 unmatched_tracks_c |-> c.unmatched_tracks,
                 unmatched_detections_c |-> c.unmatched_detections]
                : c \in min_cost_matching(
                           sub_metric(trks, dets, sub_smp),
                           sub_matching_threshold,
                           track_candidates, det_candidates)}
        StageB(a) ==
            UNION {StageC(a, b) :
                     b \in min_cost_matching(
                              iou_cost(trks, dets),
                              max_iou_distance,
                              iou_track_candidates(trks, unconfirmed_tracks,
                                                   a.unmatched_tracks),
                              a.unmatched_detections)}
    IN UNION {StageB(a) :
                a \in matching_cascade(
                         gated_metric(trks, dets, smp),
                         matching_threshold, max_age, trks, dets,
                         confirmed_tracks)}

(* --------------------------- Tracker.update ---------------------------- *)
\* for track_idx, detection_idx in matches: tracks[track_idx].update(...)
RECURSIVE apply_matches(_, _, _)
apply_matches(trks, dets, matches) ==
    IF matches = <<>> THEN trks
    ELSE LET p == Head(matches)
         IN apply_matches([trks EXCEPT ![p[1]] = track_update(@, dets[p[2]])],
                          dets, Tail(matches))

\* mutant: the unmatched tracks are not marked missed
apply_missed_none(trks, unmatched_tracks) == trks

\* for track_idx in unmatched_tracks: tracks[track_idx].mark_missed()
RECURSIVE apply_missed(_, _)
apply_missed(trks, unmatched_tracks) ==
    IF unmatched_tracks = <<>> THEN trks
    ELSE apply_missed([trks EXCEPT ![Head(unmatched_tracks)] = mark_missed(@)],
                      Tail(unmatched_tracks))

\* mutant: the Deleted tracks are not filtered out
purge_none(trks) == trks

\* self.tracks = [t for t in self.tracks if not t.is_deleted()]
purge(trks) == SelectSeq(trks, LAMBDA t : ~is_deleted(t))

\* mutant: _next_id is not advanced
_initiate_track_same_id(st, dets, d) ==
    [tracks |-> Append(st.tracks, Track(dets[d], st.next_id)),
     next_id |-> st.next_id,
     created |-> Append(st.created, d)]

\* Tracker._initiate_track: st.tracks is self.tracks, st.next_id is
\* self._next_id, st.created lists the detections that spawned a track
_initiate_track(st, dets, d) ==
    [tracks |-> Append(st.tracks, Track(dets[d], st.next_id)),
     next_id |-> st.next_id + 1,
     created |-> Append(st.created, d)]

\* mutant: the guard sees only the tracks that were there before the loop
RECURSIVE initiate_tracks_old_only(_, _, _)
initiate_tracks_old_only(st, dets, unmatched_detections) ==
    IF unmatched_detections = <<>> THEN st
    ELSE LET d == Head(unmatched_detections)
             old == SubSeq(st.tracks, 1, Len(st.tracks) - Len(st.created))
         IN IF has_same_subfeat(dets[d], old)
            THEN initiate_tracks_old_only(st, dets, Tail(unmatched_detections))
            ELSE initiate_tracks_old_only(_initiate_track(st, dets, d), dets,
                                          Tail(unmatched_detections))

\* for detection_idx in unmatched_detections: the guard, then the creation
RECURSIVE initiate_tracks(_, _, _)
initiate_tracks(st, dets, unmatched_detections) ==
    IF unmatched_detections = <<>> THEN st
    ELSE LET d == Head(unmatched_detections)
         IN IF has_same_subfeat(dets[d], st.tracks)
            THEN initiate_tracks(st, dets, Tail(unmatched_detections))
            ELSE initiate_tracks(_initiate_track(st, dets, d), dets,
                                 Tail(unmatched_detections))

\* history: the counters missed and trial of the tracks after the match
\* and miss transitions of one update() call
note_history(pre, updated, matches, unmatched_tracks) ==
    [i \in DOMAIN updated |->
        [updated[i] EXCEPT
           !.missed = IF \E k \in DOMAIN matches : matches[k][1] = i THEN 0
                      ELSE IF \E k \in DOMAIN unmatched_tracks :
                                 unmatched_tracks[k] = i
                      THEN @ + 1 ELSE @,
           !.trial = IF pre[i].state = "Tentative" THEN @ + 1 ELSE @]]

\* mutant: the samples of every active track are kept
fit_samples_all_tracks(trks) ==
    UNION {{<<trks[i].track_id, f>> : f \in trks[i].features} : i \in DOMAIN trks}

\* the samples handed to metric.partial_fit, restricted to active_targets
fit_samples(trks) ==
    UNION {{<<trks[i].track_id, f>> : f \in trks[i].features} :
             i \in {j \in DOMAIN trks : is_confirmed(trks[j])}}

\* mutant: the secondary samples of every active track are kept
fit_sub_samples_all_tracks(trks) ==
    UNION {{<<trks[i].track_id, f>> : f \in trks[i].sub_features} : i \in DOMAIN trks}

fit_sub_samples(trks) ==
    UNION {{<<trks[i].track_id, f>> : f \in trks[i].sub_features} :
             i \in {j \in DOMAIN trks : is_confirmed(trks[j])}}

NoUpdate ==
    [op |-> "none", detections |-> <<>>, pre |-> <<>>, updated |-> <<>>,
     purged |-> <<>>,
     created |-> <<>>, matches |-> <<>>, unmatched_tracks |-> <<>>,
     unmatched_detections |-> <<>>, matches_a |-> <<>>, matches_b |-> <<>>,
     matches_c |-> <<>>, iou_track_candidates |-> <<>>,
     iou_det_candidates |-> <<>>, subfeat_track_candidates |-> <<>>,
     subfeat_det_candidates |-> <<>>, unmatched_tracks_a |-> <<>>,
     unmatched_tracks_b |-> <<>>, unmatched_detections_b |-> <<>>,
     unmatched_tracks_c |-> <<>>, unmatched_detections_c |-> <<>>,
     samples |-> {}, sub_samples |-> {}]

Init ==
    /\ tracks = <<>>
    /\ next_id = 1
    /\ samples = {}
    /\ sub_samples = {}
    /\ npredict = 0
    /\ retired = {}
    /\ stream = [ok |-> TRUE, n |-> 0, det |-> <<>>]
    /\ last = NoUpdate

\* mutant: predict() does not advance the tracks
Predict_skips_tracks ==
    /\ npredict = 0
    /\ tracks' = tracks
    /\ npredict' = npredict + 1
    /\ last' = [NoUpdate EXCEPT !.op = "predict"]
    /\ UNCHANGED <<next_id, samples, sub_samples, retired, stream>>

\* Tracker.predict: called once every time step, before update
Predict ==
    /\ npredict = 0
    /\ tracks' = [i \in DOMAIN tracks |-> track_predict(tracks[i])]
    /\ npredict' = npredict + 1
    /\ last' = [NoUpdate EXCEPT !.op = "predict"]
    /\ UNCHANGED <<next_id, samples, sub_samples, retired, stream>>

\* Tracker.update(detections), after the predict() of the time step; the
\* call is taken while the track list, the identities and the hits stay
\* within the bounds
Update(detections) ==
    /\ npredict = 1
    /\ \E m \in _match(tracks, detections, samples, sub_samples) :
         LET updated == note_history(tracks,
                            apply_missed(apply_matches(tracks, detections, m.matches),
                                         m.unmatched_tracks),
                            m.matches, m.unmatched_tracks)
             purged == purge(updated)
             st == initiate_tracks([tracks |-> purged, next_id |-> next_id,
                                    created |-> <<>>],
                                   detections, m.unmatched_detections)
         IN /\ Len(st.tracks) <= MaxTracks
            /\ st.next_id <= MaxId + 1
            /\ \A i \in DOMAIN st.tracks : st.tracks[i].hits <= MaxHits
            /\ tracks' = st.tracks
            /\ next_id' = st.next_id
            /\ samples' = fit_samples(st.tracks)
            /\ sub_samples' = fit_sub_samples(st.tracks)
            /\ npredict' = 0
            /\ retired' = retired \cup
                   {updated[i].track_id :
                       i \in {j \in DOMAIN updated : is_deleted(updated[j])}}
            /\ stream' = IF stream.ok /\ Len(detections) > 0
                             /\ (stream.n = 0 \/ stream.det = detections)
                          THEN [ok |-> TRUE, det |-> detections,
                                n |-> IF stream.n > n_init THEN stream.n
                                      ELSE stream.n + 1]
                          ELSE [ok |-> FALSE, n |-> 0, det |-> <<>>]
            /\ last' = [op |-> "update", detections |-> detections,
                        pre |-> tracks, updated |-> updated,
                        purged |-> purged,
                        created |-> st.created,
                        matches |-> m.matches,
                        unmatched_tracks |-> m.unmatched_tracks,
                        unmatched_detections |-> m.unmatched_detections,
                        matches_a |-> m.matches_a, matches_b |-> m.matches_b,
                        matches_c |-> m.matches_c,
                        iou_track_candidates |-> m.iou_track_candidates,
                        iou_det_candidates |-> m.iou_det_candidates,
                        subfeat_track_candidates |-> m.subfeat_track_candidates,
                        subfeat_det_candidates |-> m.subfeat_det_candidates,
                        unmatched_tracks_a |-> m.unmatched_tracks_a,
                        unmatched_tracks_b |-> m.unmatched_tracks_b,
                        unmatched_detections_b |-> m.unmatched_detections_b,
                        unmatched_tracks_c |-> m.unmatched_tracks_c,
                        unmatched_detections_c |-> m.unmatched_detections_c,
                        samples |-> samples, sub_samples |-> sub_samples]

UpdateAny == \E detections \in DetectionLists : Update(detections)

Next == Predict \/ UpdateAny

Spec == Init /\ [][Next]_vars

(* ------------------------------ claims --------------------------------- *)
Ids(trks) == {trks[i].track_id : i \in DOMAIN trks}

Occurrences(seq, x) == Cardinality({k \in DOMAIN seq : seq[k] = x})

MatchedTracks(matches, t) == Cardinality({k \in DOMAIN matches : matches[k][1] = t})

MatchedDets(matches, d) == Cardinality({k \in DOMAIN matches : matches[k][2] = d})

Updated == last.op = "update"

\* the tracks of the active set that the last update() call created
NewTracks == SubSeq(tracks, Len(last.purged) + 1, Len(tracks))

\* C1: the matches, unmatched tracks and unmatched detections that _match
\* returns partition the track indices and the detection indices: every
\* index is in exactly one match pair or exactly once in its unmatched list,
\* and no other index occurs.
C1_MatchPartition ==
    Updated =>
      /\ \A t \in 1..Len(last.pre) :
           MatchedTracks(last.matches, t)
             + Occurrences(last.unmatched_tracks, t) = 1
      /\ \A d \in 1..Len(last.detections) :
           MatchedDets(last.matches, d)
             + Occurrences(last.unmatched_detections, d) = 1
      /\ \A k \in DOMAIN last.matches :
           /\ last.matches[k][1] \in 1..Len(last.pre)
           /\ last.matches[k][2] \in 1..Len(last.detections)
      /\ Range(last.unmatched_tracks) \subseteq 1..Len(last.pre)
      /\ Range(last.unmatched_detections) \subseteq 1..Len(last.detections)
      /\ Len(last.matches) =
           Len(last.matches_a) + Len(last.matches_b) + Len(last.matches_c)

\* a call with two tracks and two detections that leaves a match, an
\* unmatched track and an unmatched detection
C1_Witness ==
    /\ Updated
    /\ Len(last.pre) = 2 /\ Len(last.detections) = 2
    /\ Len(last.matches) = 1
    /\ Len(last.unmatched_tracks) = 1
    /\ Len(last.unmatched_detections) = 1

\* C2: identities are unique and never reused: the identities of the
\* active and the removed tracks are exactly 1 .. _next_id - 1, each held by
\* one track, no active track has the identity of a removed one, and the
\* active set lists its tracks by increasing identity (creation order).
C2_UniqueIds ==
    /\ Ids(tracks) \cup retired = 1..(next_id - 1)
    /\ Ids(tracks) \cap retired = {}
    /\ \A i, j \in DOMAIN tracks :
         i < j => tracks[i].track_id < tracks[j].track_id

\* two tracks are active after a third was removed
C2_Witness ==
    /\ Len(tracks) = 2
    /\ retired # {}
    /\ next_id = 4

\* C3: a Tentative track left unmatched by update() is Deleted and removed
\* in that call, and the identity of a removed track is never again the
\* identity of a track of the active set (Confirmed or not).
C3_TentativeMissDeleted ==
    /\ Updated =>
         \A k \in DOMAIN last.unmatched_tracks :
           LET t == last.pre[last.unmatched_tracks[k]]
           IN t.state = "Tentative" =>
                /\ last.updated[last.unmatched_tracks[k]].state = "Deleted"
                /\ t.track_id \in retired
                /\ t.track_id \notin Ids(tracks)
    /\ \A i \in DOMAIN tracks : tracks[i].track_id \notin retired

\* a Tentative track with a hit was left unmatched, and a track is active
C3_Witness ==
    /\ Updated
    /\ \E k \in DOMAIN last.unmatched_tracks :
         LET t == last.pre[last.unmatched_tracks[k]]
         IN t.state = "Tentative" /\ t.hits > 0 /\ t.hits < n_init
    /\ \E i \in DOMAIN tracks : tracks[i].state = "Confirmed"

\* C4: in every update() a Confirmed track is removed from the active set
\* if and only if it is left unmatched with time_since_update > max_age.
C4_ConfirmedDeletedIffStale ==
    Updated =>
      \A i \in DOMAIN last.pre :
        last.pre[i].state = "Confirmed" =>
          ( last.pre[i].track_id \notin Ids(tracks)
            <=> /\ Occurrences(last.unmatched_tracks, i) > 0
                /\ last.pre[i].time_since_update > max_age )

\* a Confirmed track was removed while another one, unmatched with
\* time_since_update = max_age, stayed
C4_Witness ==
    /\ Updated
    /\ \E i, j \in DOMAIN last.pre :
         /\ last.pre[i].state = "Confirmed"
         /\ last.pre[i].track_id \notin Ids(tracks)
         /\ last.pre[j].state = "Confirmed"
         /\ Occurrences(last.unmatched_tracks, j) > 0
         /\ last.pre[j].time_since_update = max_age
         /\ last.pre[j].track_id \in Ids(tracks)

\* C5: with one predict() per update(), a Confirmed track that is left
\* unmatched stays active through its first max_age consecutive misses and
\* is removed exactly by the update() of its (max_age + 1)-th miss.
C5_RemovedAfterMaxAgeMisses ==
    /\ \A i \in DOMAIN tracks :
         tracks[i].state = "Confirmed" => tracks[i].missed <= max_age
    /\ Updated =>
         \A i \in DOMAIN last.pre :
           (last.pre[i].state = "Confirmed"
              /\ Occurrences(last.unmatched_tracks, i) > 0) =>
             ( last.pre[i].track_id \notin Ids(tracks)
               <=> last.pre[i].missed = max_age )

\* a Confirmed track was removed by its (max_age + 1)-th consecutive miss
C5_Witness ==
    /\ Updated
    /\ \E i \in DOMAIN last.pre :
         /\ last.pre[i].state = "Confirmed"
         /\ last.pre[i].missed = max_age
         /\ last.updated[i].missed = max_age + 1
         /\ last.pre[i].track_id \notin Ids(tracks)

\* C6: a single detection fed alone, unchanged, in every frame since the
\* empty tracker yields one track with identity 1, Tentative before frame
\* n_init and Confirmed by the update() of frame n_init.
C6_ConfirmedAtFrameNInit ==
    (stream.ok /\ Len(stream.det) = 1 /\ stream.n >= 1 /\ stream.n <= n_init) =>
      /\ Len(tracks) = 1
      /\ tracks[1].track_id = 1
      /\ next_id = 2
      /\ stream.n < n_init => tracks[1].state = "Tentative"
      /\ stream.n = n_init => tracks[1].state = "Confirmed"

Duplicates(det, trk) ==
    /\ det.sub_feature # None
    /\ trk.detection.sub_feature # None
    /\ IoU(det.sub_tlbr, trk.detection.sub_tlbr) > iou_thresh
    /\ norm(det.sub_feature, trk.detection.sub_feature) < feat_thresh

\* C8: no track is created for an unmatched detection with a secondary
\* feature when a track that survived the purge has a last detection with
\* a secondary feature, secondary-box IoU above 0.5 and secondary-feature
\* distance below 0.9.
C8_DuplicateNotInitiated ==
    Updated =>
      \A k \in DOMAIN last.unmatched_detections :
        LET d == last.unmatched_detections[k]
        IN (\E i \in DOMAIN last.purged :
               Duplicates(last.detections[d], last.purged[i]))
             => /\ Occurrences(last.created, d) = 0
                /\ \A j \in DOMAIN NewTracks :
                     NewTracks[j].detection # last.detections[d]

\* the guard held back an unmatched detection because of an older track
C8_Witness ==
    /\ Updated
    /\ \E k \in DOMAIN last.unmatched_detections :
         \E i \in DOMAIN last.purged :
           Duplicates(last.detections[last.unmatched_detections[k]],
                      last.purged[i])

\* C9: every unmatched detection without secondary feature spawns exactly
\* one new Tentative track in that update(), whatever tracks are active.
C9_NoSubFeatureAlwaysInitiated ==
    Updated =>
      /\ Len(NewTracks) = Len(last.created)
      /\ \A k \in DOMAIN last.unmatched_detections :
           LET d == last.unmatched_detections[k]
           IN last.detections[d].sub_feature = None =>
                /\ Occurrences(last.created, d) = 1
                /\ \A j \in DOMAIN last.created :
                     last.created[j] = d =>
                       /\ NewTracks[j].state = "Tentative"
                       /\ NewTracks[j].detection = last.detections[d]
                       /\ NewTracks[j].hits = 0

\* a detection without secondary feature spawned a track although a track
\* with a secondary feature overlaps it
C9_Witness ==
    /\ Updated
    /\ \E k \in DOMAIN last.unmatched_detections :
         LET det == last.detections[last.unmatched_detections[k]]
         IN /\ det.sub_feature = None
            /\ \E i \in DOMAIN last.purged :
                 /\ last.purged[i].detection.sub_feature # None
                 /\ IoU(det.sub_tlbr, last.purged[i].detection.sub_tlbr)
                      > iou_thresh

\* C10: no track of the active set is Deleted; a track that update() marked
\* Deleted is gone when the call returns; and the tracks are removed before
\* the new ones are created: the active set is the surviving tracks followed
\* by the new ones, and a detection held back by the guard duplicates a
\* track of that set.
C10_DeletedPurgedBeforeCreation ==
    /\ \A i \in DOMAIN tracks : tracks[i].state # "Deleted"
    /\ Updated =>
         /\ \A i \in DOMAIN last.updated :
              last.updated[i].state = "Deleted" =>
                last.updated[i].track_id \notin Ids(tracks)
         /\ \A i \in DOMAIN last.updated :
              last.updated[i].state # "Deleted" =>
                \E j \in 1..Len(last.purged) : tracks[j] = last.updated[i]
         /\ Len(tracks) = Len(last.purged) + Len(last.created)
         /\ \A k \in DOMAIN last.unmatched_detections :
              Occurrences(last.created, last.unmatched_detections[k]) = 0 =>
                has_same_subfeat(
                    last.detections[last.unmatched_detections[k]], tracks)

\* an update() that deleted a track and created one
C10_Witness ==
    /\ Updated
    /\ \E i \in DOMAIN last.updated : last.updated[i].state = "Deleted"
    /\ Len(last.created) > 0

\* C11: the matching cascade (Stage A) never returns a pair whose motion
\* gating distance is above the gating threshold, however small the
\* appearance distance is; a track and a detection so far apart are paired,
\* if at all, by the IOU or the secondary-feature stage.
C11_StageAGated ==
    Updated =>
      /\ \A k \in DOMAIN last.matches_a :
           gating_distance(last.pre[last.matches_a[k][1]],
                           last.detections[last.matches_a[k][2]])
             <= gating_threshold
      /\ \A k \in DOMAIN last.matches :
           gating_distance(last.pre[last.matches[k][1]],
                           last.detections[last.matches[k][2]])
             > gating_threshold
           => \/ \E j \in DOMAIN last.matches_b : last.matches_b[j] = last.matches[k]
              \/ \E j \in DOMAIN last.matches_c : last.matches_c[j] = last.matches[k]

\* a confirmed track of a cascade bucket and a detection within the
\* appearance threshold of its gallery but outside the gate: Stage A left
\* the pair alone and the secondary-feature stage matched it
C11_Witness ==
    /\ Updated
    /\ \E i \in DOMAIN last.pre : \E d \in DOMAIN last.detections :
         /\ is_confirmed(last.pre[i])
         /\ last.pre[i].time_since_update \in 1..max_age
         /\ distance(last.samples, last.detections[d].feature,
                     last.pre[i].track_id) <= matching_threshold
         /\ gating_distance(last.pre[i], last.detections[d]) > gating_threshold
         /\ \E j \in DOMAIN last.matches_c : last.matches_c[j] = <<i, d>>

\* the same two detections fed together in every frame so far, from the
\* empty tracker on: their boxes do not overlap and their appearance
\* features are further apart than the appearance threshold
TwoStreams ==
    /\ stream.ok
    /\ Len(stream.det) = 2
    /\ IoU(stream.det[1].tlbr, stream.det[2].tlbr) = 0
    /\ norm(stream.det[1].feature, stream.det[2].feature) > matching_threshold

\* C12: two detection streams without spatial overlap and with distinct
\* appearance features, fed together for n_init frames from an empty tracker,
\* give exactly two tracks with two different identities, each following its
\* own stream in every frame (never a cross-match), and each Confirmed after
\* the update of frame n_init.
C12_TwoStreamsTwoConfirmedTracks ==
    (TwoStreams /\ stream.n >= 1 /\ stream.n <= n_init) =>
      /\ Len(tracks) = 2
      /\ tracks[1].track_id # tracks[2].track_id
      /\ \E p \in {<<1, 2>>, <<2, 1>>} : \A k \in 1..2 :
           /\ tracks[p[k]].detection = stream.det[k]
           /\ tracks[p[k]].mean = stream.det[k].tlbr
      /\ stream.n = n_init => \A k \in 1..2 : is_confirmed(tracks[k])

\* a track without the history counters
NoHistory(trk) == [trk EXCEPT !.missed = 0, !.trial = 0]

\* C13: empty inputs are handled, not rejected. update() with no detections
\* returns no match, every active track takes the miss transition and no
\* track is created; update() with no active track returns no match and
\* every detection as unmatched; and a matching stage with no track
\* candidate or no detection candidate contributes no match and returns all
\* its candidates unmatched.
C13_EmptyInputs ==
    Updated =>
      /\ last.detections = <<>> =>
           /\ last.matches = <<>>
           /\ Range(last.unmatched_tracks) = DOMAIN last.pre
           /\ \A i \in DOMAIN last.pre :
                NoHistory(last.updated[i]) = NoHistory(mark_missed(last.pre[i]))
           /\ last.created = <<>>
           /\ Len(tracks) = Len(last.purged)
      /\ last.pre = <<>> =>
           /\ last.matches = <<>>
           /\ last.unmatched_tracks = <<>>
           /\ Len(last.unmatched_detections) = Len(last.detections)
           /\ Range(last.unmatched_detections) = DOMAIN last.detections
      /\ (last.detections = <<>>
            \/ \A i \in DOMAIN last.pre : ~is_confirmed(last.pre[i])) =>
           /\ last.matches_a = <<>>
           /\ Range(last.unmatched_tracks_a) =
                  {i \in DOMAIN last.pre : is_confirmed(last.pre[i])}
           /\ last.iou_det_candidates = [i \in 1..Len(last.detections) |-> i]
      /\ (last.iou_track_candidates = <<>> \/ last.iou_det_candidates = <<>>) =>
           /\ last.matches_b = <<>>
           /\ Range(last.unmatched_tracks_b) = Range(last.iou_track_candidates)
           /\ last.unmatched_detections_b = last.iou_det_candidates
      /\ (last.subfeat_track_candidates = <<>>
            \/ last.subfeat_det_candidates = <<>>) =>
           /\ last.matches_c = <<>>
           /\ Range(last.unmatched_tracks_c) = Range(last.subfeat_track_candidates)
           /\ last.unmatched_detections_c = last.subfeat_det_candidates
           /\ Range(last.subfeat_track_candidates) \subseteq Range(last.unmatched_tracks)
           /\ Range(last.subfeat_det_candidates)
                \subseteq Range(last.unmatched_detections)

\* update() without detections on a Tentative track and on a Confirmed track
\* that is a candidate of the IOU stage and of the secondary-feature stage
C13_Witness ==
    /\ Updated
    /\ last.detections = <<>>
    /\ \E i \in DOMAIN last.pre : last.pre[i].state = "Tentative"
    /\ \E i \in DOMAIN last.pre :
         /\ is_confirmed(last.pre[i])
         /\ \E k \in DOMAIN last.iou_track_candidates :
              last.iou_track_candidates[k] = i
         /\ \E k \in DOMAIN last.subfeat_track_candidates :
              last.subfeat_track_candidates[k] = i

\* the track indices of the pairs of a list of matches, and the detection
\* indices
TracksOf(matches) == {matches[k][1] : k \in DOMAIN matches}

DetsOf(matches) == {matches[k][2] : k \in DOMAIN matches}

\* C14: the track candidates of the IOU stage (Stage B) are exactly the
\* tracks that are not Confirmed and the Confirmed tracks that Stage A left
\* unmatched with time_since_update = 1; a track that Stage A left unmatched
\* with another time_since_update is never matched in Stage B; and Stage B
\* is given exactly the detections that Stage A left unmatched.
C14_StageBCandidates ==
    Updated =>
      /\ Range(last.iou_track_candidates) =
           {i \in DOMAIN last.pre : ~is_confirmed(last.pre[i])}
             \cup {i \in DOMAIN last.pre :
                     /\ is_confirmed(last.pre[i])
                     /\ i \notin TracksOf(last.matches_a)
                     /\ last.pre[i].time_since_update = 1}
      /\ Len(last.iou_track_candidates)
           = Cardinality(Range(last.iou_track_candidates))
      /\ \A i \in DOMAIN last.pre :
           (is_confirmed(last.pre[i]) /\ last.pre[i].time_since_update # 1)
             => i \notin TracksOf(last.matches_b)
      /\ TracksOf(last.matches_b) \subseteq Range(last.iou_track_candidates)
      /\ Range(last.iou_det_candidates) =
           DOMAIN last.detections \ DetsOf(last.matches_a)
      /\ DetsOf(last.matches_b) \subseteq Range(last.iou_det_candidates)

\* Stage A left two Confirmed tracks unmatched that both overlap a detection
\* it left unmatched too: the one seen in the previous frame is matched in
\* Stage B, the staler one is not a candidate
C14_Witness ==
    /\ Updated
    /\ \E i, j \in DOMAIN last.pre : \E d \in DOMAIN last.detections :
         /\ is_confirmed(last.pre[i]) /\ is_confirmed(last.pre[j])
         /\ i \notin TracksOf(last.matches_a) /\ j \notin TracksOf(last.matches_a)
         /\ last.pre[i].time_since_update = 1
         /\ last.pre[j].time_since_update > 1
         /\ d \notin DetsOf(last.matches_a)
         /\ iou_cost(last.pre, last.detections)[<<i, d>>] <= max_iou_distance
         /\ iou_cost(last.pre, last.detections)[<<j, d>>] <= max_iou_distance
         /\ <<i, d>> \in Range(last.matches_b)

\* C15: the secondary-feature stage (Stage C) pairs a track and a detection
\* only if the track is unmatched after Stages A and B and its identity has
\* samples in the secondary gallery, and the detection is unmatched after
\* Stages A and B and carries a secondary feature. The other tracks and
\* detections left by Stages A and B go straight to the final unmatched
\* lists, so a detection without secondary feature is handled, never an
\* error.
C15_StageCCandidates ==
    Updated =>
      LET matched_ab == TracksOf(last.matches_a) \cup TracksOf(last.matches_b)
          dets_ab == DetsOf(last.matches_a) \cup DetsOf(last.matches_b)
      IN /\ Range(last.subfeat_track_candidates) =
              {i \in DOMAIN last.pre :
                 /\ i \notin matched_ab
                 /\ has_samples(last.sub_samples, last.pre[i].track_id)}
         /\ Range(last.subfeat_det_candidates) =
              {d \in DOMAIN last.detections :
                 /\ d \notin dets_ab
                 /\ last.detections[d].sub_feature # None}
         /\ TracksOf(last.matches_c) \subseteq Range(last.subfeat_track_candidates)
         /\ DetsOf(last.matches_c) \subseteq Range(last.subfeat_det_candidates)
         /\ \A i \in DOMAIN last.pre :
              (i \notin matched_ab
                 /\ ~has_samples(last.sub_samples, last.pre[i].track_id))
              => Occurrences(last.unmatched_tracks, i) = 1
         /\ \A d \in DOMAIN last.detections :
              (d \notin dets_ab /\ last.detections[d].sub_feature = None)
              => Occurrences(last.unmatched_detections, d) = 1

\* Stage C matched a pair while a track without secondary samples and a
\* detection without secondary feature, both left by Stages A and B, went to
\* the unmatched lists
C15_Witness ==
    /\ Updated
    /\ last.matches_c # <<>>
    /\ \E i \in DOMAIN last.pre :
         /\ i \notin TracksOf(last.matches)
         /\ ~has_samples(last.sub_samples, last.pre[i].track_id)
    /\ \E d \in DOMAIN last.detections :
         /\ d \notin DetsOf(last.matches)
         /\ last.detections[d].sub_feature = None

\* the cost Stage A gave the pair of track i and detection d in the last
\* update() call is within the appearance threshold
FeasibleA(i, d) ==
    gated_metric(last.pre, last.detections, last.samples)[<<i, d>>]
      <= matching_threshold

\* C16: Stage A works through its buckets in increasing order of
\* time_since_update, and a detection accepted in one bucket is out of reach
\* of the staler buckets: if two Confirmed tracks with different
\* time_since_update are both feasible for the same detection and for no
\* other, the detection is matched in the bucket of the fresher track or
\* before, to the fresher track itself when no third track that is as
\* fresh competes for it, and the staler track stays unmatched in Stage A
\* and is never matched to that detection.
C16_FresherBucketFirst ==
    Updated =>
      \A i, j \in DOMAIN last.pre : \A d \in DOMAIN last.detections :
        ( /\ is_confirmed(last.pre[i]) /\ is_confirmed(last.pre[j])
          /\ last.pre[i].time_since_update < last.pre[j].time_since_update
          /\ last.pre[j].time_since_update <= max_age
          /\ FeasibleA(i, d) /\ FeasibleA(j, d)
          /\ \A e \in DOMAIN last.detections \ {d} :
               ~FeasibleA(i, e) /\ ~FeasibleA(j, e) )
        => /\ \E k \in DOMAIN last.pre :
                /\ <<k, d>> \in Range(last.matches_a)
                /\ <<k, d>> \in Range(last.matches)
                /\ last.pre[k].time_since_update
                     <= last.pre[i].time_since_update
           /\ j \notin TracksOf(last.matches_a)
           /\ <<j, d>> \notin Range(last.matches)
           /\ (\A k \in DOMAIN last.pre \ {i, j} :
                  ~( /\ is_confirmed(last.pre[k])
                     /\ last.pre[k].time_since_update
                          <= last.pre[i].time_since_update
                     /\ FeasibleA(k, d) ))
              => <<i, d>> \in Range(last.matches_a)

\* two Confirmed tracks of different buckets, both feasible for the same
\* detection and for no other, and the fresher one got it
C16_Witness ==
    /\ Updated
    /\ \E i, j \in DOMAIN last.pre : \E d \in DOMAIN last.detections :
         /\ is_confirmed(last.pre[i]) /\ is_confirmed(last.pre[j])
         /\ last.pre[i].time_since_update < last.pre[j].time_since_update
         /\ last.pre[j].time_since_update <= max_age
         /\ FeasibleA(i, d) /\ FeasibleA(j, d)
         /\ \A e \in DOMAIN last.detections \ {d} :
              ~FeasibleA(i, e) /\ ~FeasibleA(j, e)
         /\ <<i, d>> \in Range(last.matches_a)

\* C17: after every update() the appearance gallery and the secondary
\* gallery hold samples only for identities of tracks that are active and
\* Confirmed at the end of that update(): the active set handed to
\* partial_fit is exactly the Confirmed identities, so the identity of a
\* Deleted or Tentative track has no gallery entry, and every sample is a
\* feature of its track.
C17_GalleryOnlyConfirmed ==
    LET confirmed == {i \in DOMAIN tracks : is_confirmed(tracks[i])}
    IN /\ \A q \in samples :
            \E i \in confirmed :
              tracks[i].track_id = q[1] /\ q[2] \in tracks[i].features
       /\ \A q \in sub_samples :
            \E i \in confirmed :
              tracks[i].track_id = q[1] /\ q[2] \in tracks[i].sub_features
       /\ \A i \in confirmed : has_samples(samples, tracks[i].track_id)
       /\ \A i \in DOMAIN tracks \ confirmed :
            /\ ~has_samples(samples, tracks[i].track_id)
            /\ ~has_samples(sub_samples, tracks[i].track_id)
       /\ \A id \in retired :
            ~has_samples(samples, id) /\ ~has_samples(sub_samples, id)

\* an update() that deleted a Confirmed track with samples in both
\* galleries, next to a Confirmed track with samples and a Tentative track
\* with a secondary feature
C17_Witness ==
    /\ Updated
    /\ \E i \in DOMAIN last.updated :
         /\ is_deleted(last.updated[i])
         /\ has_samples(last.samples, last.updated[i].track_id)
         /\ has_samples(last.sub_samples, last.updated[i].track_id)
    /\ \E i \in DOMAIN tracks :
         is_confirmed(tracks[i]) /\ has_samples(sub_samples, tracks[i].track_id)
    /\ \E i \in DOMAIN tracks :
         tracks[i].state = "Tentative" /\ tracks[i].sub_features # {}

\* two detections that the guard takes for the same object: both carry a
\* secondary feature, their secondary boxes overlap by more than iou_thresh
\* and their secondary features are closer than feat_thresh
Similar(det1, det2) ==
    /\ det1.sub_feature # None
    /\ det2.sub_feature # None
    /\ IoU(det1.sub_tlbr, det2.sub_tlbr) > iou_thresh
    /\ norm(det1.sub_feature, det2.sub_feature) < feat_thresh

\* the unmatched detection at position k of the creation loop duplicates a
\* track matched in the last update() call
DuplicatesMatched(k) ==
    \E i \in TracksOf(last.matches) :
      /\ ~is_deleted(last.updated[i])
      /\ Duplicates(last.detections[last.unmatched_detections[k]],
                    last.updated[i])

C19_TentativeOnlyStageB ==
    /\ \A i \in DOMAIN tracks :
         tracks[i].state = "Tentative" =>
           /\ ~has_samples(sub_samples, tracks[i].track_id)
           /\ ~has_samples(samples, tracks[i].track_id)
    /\ Updated =>
         /\ \A i \in TracksOf(last.matches_a) \cup TracksOf(last.matches_c) :
              is_confirmed(last.pre[i])
         /\ \A i \in DOMAIN last.pre :
              (last.pre[i].state = "Tentative" /\ i \in TracksOf(last.matches))
                => i \in TracksOf(last.matches_b)
         /\ \A i \in DOMAIN last.pre :
              last.pre[i].state = "Tentative"
                => ~has_samples(last.sub_samples, last.pre[i].track_id)

\* Stage C matched a Confirmed track while a Tentative track with the
\* secondary feature of a detection that Stages A and B left unmatched was
\* not a candidate and stayed unmatched
C19_Witness ==
    /\ Updated
    /\ last.matches_c # <<>>
    /\ \E i \in DOMAIN last.pre :
         /\ last.pre[i].state = "Tentative"
         /\ \E d \in Range(last.subfeat_det_candidates) :
              last.detections[d].sub_feature \in last.pre[i].sub_features
         /\ i \in Range(last.unmatched_tracks)

\* C20: with one predict() before every update(), a Confirmed active track
\* has time_since_update <= max_age after update() and between 1 and
\* max_age + 1 when the next cascade runs. A Confirmed track that enters the
\* cascade with time_since_update = max_age + 1 is in no bucket of Stage A
\* and is no candidate of Stage B: it is matched by Stage C or not at all,
\* and if it is not matched it is deleted in that update().
C20_StaleConfirmedTrack ==
    /\ \A i \in DOMAIN tracks :
         is_confirmed(tracks[i]) =>
           /\ npredict = 0 => tracks[i].time_since_update \in 0..max_age
           /\ npredict = 1 => tracks[i].time_since_update \in 1..(max_age + 1)
    /\ Updated =>
         \A i \in DOMAIN last.pre :
           is_confirmed(last.pre[i]) =>
             /\ last.pre[i].time_since_update \in 1..(max_age + 1)
             /\ last.pre[i].time_since_update = max_age + 1 =>
                  /\ i \notin TracksOf(last.matches_a)
                  /\ i \notin Range(last.iou_track_candidates)
                  /\ i \notin TracksOf(last.matches_b)
                  /\ i \in TracksOf(last.matches) <=> i \in TracksOf(last.matches_c)
                  /\ i \notin TracksOf(last.matches) =>
                       /\ is_deleted(last.updated[i])
                       /\ last.pre[i].track_id \notin Ids(tracks)
                  /\ i \in TracksOf(last.matches) =>
                       /\ is_confirmed(last.updated[i])
                       /\ last.updated[i].time_since_update = 0

\* a Confirmed track entered the cascade with time_since_update =
\* max_age + 1, overlapped by a detection with its appearance, and was
\* matched by Stage C
C20_Witness ==
    /\ Updated
    /\ \E i \in DOMAIN last.pre : \E d \in DOMAIN last.detections :
         /\ is_confirmed(last.pre[i])
         /\ last.pre[i].time_since_update = max_age + 1
         /\ FeasibleA(i, d)
         /\ iou_cost(last.pre, last.detections)[<<i, d>>] <= max_iou_distance
         /\ <<i, d>> \in Range(last.matches_c)

====
